---- MODULE Spec2Model ----
(***************************************************************************)
(* pg_tle_install_local_extension: the single run of main() in             *)
(* src/tools/pg_tle_install_local_extension/src/main.rs.                   *)
(*                                                                         *)
(* One process, one pass: Args::parse, two format! calls, three println!   *)
(* calls, the OpenSSL connector set-up, two fs::read_to_string calls,      *)
(* Client::connect and client.execute.  Every fallible call is followed by *)
(* .unwrap()/.expect(), so its failure panics and the process exits.       *)
(* The file system, the CA file, the server and the remote procedure are   *)
(* the environment: their answers are chosen nondeterministically at the   *)
(* step that asks for them and are recorded next to what the program did.  *)
(***************************************************************************)
EXTENDS Integers, Sequences, FiniteSets, TLC

\* ------------------------------------------------------------------ bounds
\* Longest command line (number of options/flags after the program name).
MaxArgs == 5

\* ------------------------------------------------------ command-line input
\* One element of the command line is an option with its value, or a flag.
\* "c","p","n","r","a" are -c/--pgconn, -p/--extpath, -n/--extname,
\* -r/--extrev, -a/--ca-file; "help" and "version" are the flags clap
\* generates for a Parser that sets about and version; "bad" is anything
\* clap rejects while scanning (an unknown flag, a stray positional, an
\* option without its value).
Options == {"c", "p", "n", "r", "a"}

Flags == {"help", "version", "bad"}

OptionValues(k) ==
    CASE k = "c" -> {"host=db sslmode=require"}
      [] k = "p" -> {"/opt/ext"}
      [] k = "n" -> {"myext", "my--ext"}
      [] k = "r" -> {"1.0", "2.0--beta"}
      [] k = "a" -> {"/tmp/root.crt"}

Tokens ==
    UNION {{[key |-> k, val |-> v] : v \in OptionValues(k)} : k \in Options}
        \cup {[key |-> f, val |-> ""] : f \in Flags}

\* Variant: ext_rev carries a default value, so -r/--extrev is optional.
RequiredWithoutRev == {"c", "p", "n"}

\* ------------------------------------------------------------ struct Args
\* Fields of type String without a default_value are required options.
Required == {"c", "p", "n", "r"}

\* Variant: the developer path of the commented-out set_ca_file call is the
\* default.
DefaultCaFileDev == "/home/sharyogi/tls/root.crt"

\* default_value_t of ca_file.
DefaultCaFile == "/etc/pki/ca-trust/extracted/pem/tls-ca-bundle.pem"

\* Exit status of Error::exit() for a usage error, of a panic in main, and
\* of a normal return from main (also of clap's help/version display).
ExitUsage == 2

ExitPanic == 101

ExitSuccess == 0

NoValue == "<none>"

Occurrences(line, k) == Cardinality({i \in 1..Len(line) : line[i].key = k})

Given(line, k) == Occurrences(line, k) > 0

ValueOf(line, k) == line[CHOOSE i \in 1..Len(line) : line[i].key = k].val

ArgOr(line, k, dflt) == IF Given(line, k) THEN ValueOf(line, k) ELSE dflt

\* Index of the first flag clap acts on while scanning left to right
\* (help, version, or a token it rejects); 0 when there is none.
FirstStop(line) ==
    IF \E i \in 1..Len(line) : line[i].key \in Flags
    THEN CHOOSE i \in 1..Len(line) :
            /\ line[i].key \in Flags
            /\ \A j \in 1..(i - 1) : line[j].key \notin Flags
    ELSE 0

\* Args::parse(): the scan stops at the first help/version flag (displayed,
\* exit 0) or rejected token (usage error); after the scan the validator
\* rejects an option given more than once and a missing required option.
ParseArgs(line) ==
    LET s == FirstStop(line) IN
    IF s # 0
    THEN [kind |-> IF line[s].key = "bad" THEN "error" ELSE line[s].key,
          args |-> NoValue]
    ELSE IF \E k \in Options : Occurrences(line, k) > 1
    THEN [kind |-> "error", args |-> NoValue]
    ELSE IF \E k \in Required : ~Given(line, k)
    THEN [kind |-> "error", args |-> NoValue]
    ELSE [kind |-> "ok",
          args |-> [pg_conn  |-> ArgOr(line, "c", ""),
                    ext_path |-> ArgOr(line, "p", ""),
                    ext_name |-> ArgOr(line, "n", ""),
                    ext_rev  |-> ArgOr(line, "r", ""),
                    ca_file  |-> ArgOr(line, "a", DefaultCaFile)]]

\* ---------------------------------------------------------- pure helpers
\* format!("{}/{}.control", ext_path, ext_name)
CntrlFile(a) == a.ext_path \o "/" \o a.ext_name \o ".control"

\* Variant: the revision is left out of the script's file name.
FuncFileNoRev(a) == a.ext_path \o "/" \o a.ext_name \o ".sql"

\* format!("{}/{}--{}.sql", ext_path, ext_name, ext_rev)
FuncFile(a) == a.ext_path \o "/" \o a.ext_name \o "--" \o a.ext_rev \o ".sql"

\* The three println! lines.
DiagnosticLines(a, cf, ff) ==
    << "Loading " \o a.ext_name \o " version " \o a.ext_rev
           \o " from " \o a.ext_path \o " using " \o a.pg_conn,
       "cntrl_file is " \o cf,
       "func_file is " \o ff >>

HelpText == "<help>"

VersionText == "<version>"

\* What can be on disk at a path: nothing, bytes that are not UTF-8 (or a
\* file that cannot be opened), or a text.
Texts == {"comment = 'x'", "comment = 'x'\n", "CREATE FUNCTION f() RETURNS int;\n"}

Absent == "<absent>"

NotUtf8 == "<not utf-8>"

DiskStates == {Absent, NotUtf8} \cup Texts

\* fs::read_to_string: the whole text of the file, or an io::Error.
ReadToString(d) ==
    IF d \in Texts THEN [ok |-> TRUE, val |-> d] ELSE [ok |-> FALSE, val |-> NoValue]

\* SslConnector::builder(SslMethod::tls()): peer verification on, nothing
\* loaded by the program yet.
NewBuilder == [ca_file |-> NoValue, verify |-> "PEER"]

\* builder.set_ca_file(args.ca_file)
SetCaFile(b, path) == [b EXCEPT !.ca_file = path]

\* Variant: the set_verify call is missing, the builder's default stays.
SetVerifySkipped(b) == b

\* builder.set_verify(SslVerifyMode::NONE)
SetVerify(b) == [b EXCEPT !.verify = "NONE"]

\* What the client can meet at the other end.  chains: the certificate the
\* server presents chains to the CA bundle loaded into the connector;
\* host_match: the certificate's subject matches the host connected to.
Servers == [reachable : BOOLEAN, auth : BOOLEAN, chains : BOOLEAN, host_match : BOOLEAN]

\* The client side of the TLS handshake.  With SSL_VERIFY_NONE the result of
\* certificate verification (chain and host name) is ignored and the
\* handshake continues; with SSL_VERIFY_PEER a failed verification ends it.
HandshakeAccepted(conn, srv) ==
    \/ conn.verify = "NONE"
    \/ srv.chains /\ srv.host_match

\* The statement and the parameter slice of client.execute.
InstallStatement == "SELECT * FROM pg_tle.install_extension( $1, $2, $3, $4, $5 )"

\* Variant: the two file contents change places in the parameter slice.
InstallArgsSwapped(a, cntrl, func) == << a.ext_name, a.ext_rev, func, FALSE, cntrl >>

InstallArgs(a, cntrl, func) == << a.ext_name, a.ext_rev, cntrl, FALSE, func >>

\* ------------------------------------------------------- control flow
\* The statements of main in program order.
Order ==
    << "parse", "format", "print", "builder", "set_ca_file", "set_verify",
       "make_connector", "read_cntrl", "read_func", "connect", "execute",
       "return" >>

IndexOf(step) == CHOOSE i \in 1..Len(Order) : Order[i] = step

\* Variant: Client::connect is placed before the two file reads.
OrderConnectEarly ==
    << "parse", "format", "print", "builder", "set_ca_file", "set_verify",
       "make_connector", "connect", "read_cntrl", "read_func", "execute",
       "return" >>

NextStepConnectEarly(step) ==
    OrderConnectEarly[(CHOOSE i \in 1..Len(OrderConnectEarly) : OrderConnectEarly[i] = step) + 1]

\* Variant: the println! calls are placed after the connector is built.
OrderPrintLate ==
    << "parse", "format", "builder", "set_ca_file", "set_verify",
       "make_connector", "print", "read_cntrl", "read_func", "connect",
       "execute", "return" >>

NextStepPrintLate(step) ==
    OrderPrintLate[(CHOOSE i \in 1..Len(OrderPrintLate) : OrderPrintLate[i] = step) + 1]

NextStep(step) == Order[IndexOf(step) + 1]

\* Variant: a failed call is tried again instead of ending the process.
UnwrapRetry(ok, step) ==
    IF ok THEN [pc |-> NextStep(step), exit |-> << >>]
          ELSE [pc |-> step, exit |-> << >>]

\* Variant: the Result of client.execute is dropped instead of unwrapped.
UnwrapExecuteDropped(ok, step) ==
    IF ok \/ step = "execute"
    THEN [pc |-> NextStep(step), exit |-> << >>]
    ELSE [pc |-> "exited", exit |-> << ExitPanic >>]

\* .unwrap() / .expect(): the value on Ok, a panic (exit 101) on Err.
Unwrap(ok, step) ==
    IF ok THEN [pc |-> NextStep(step), exit |-> << >>]
          ELSE [pc |-> "exited", exit |-> << ExitPanic >>]

\* ------------------------------------------------------------------ state
VARIABLES
    argv,           \* the command line of this run
    pc,             \* the statement of main about to run, or "exited"
    exit_status,    \* << >> while running, << status >> once exited
    args,           \* let args
    cntrl_file,     \* let cntrl_file
    func_file,      \* let func_file
    stdout,         \* lines written to standard output
    builder,        \* let mut builder
    connector,      \* let connector
    cntrl_content,  \* let cntrl_content
    func_content,   \* let func_content
    client,         \* let mut client
    events,         \* the steps performed so far, with their outcome
    ca_loads,       \* paths handed to set_ca_file
    opened,         \* paths handed to fs::read_to_string, with what was there
    connects,       \* connection attempts, with what the server was
    calls           \* remote calls made

vars ==
    << argv, pc, exit_status, args, cntrl_file, func_file, stdout, builder,
       connector, cntrl_content, func_content, client, events, ca_loads,
       opened, connects, calls >>

locals == << args, cntrl_file, func_file, builder, connector, cntrl_content, func_content, client >>

effects == << stdout, ca_loads, opened, connects, calls >>

Init ==
    /\ \E n \in 0..MaxArgs : argv \in [1..n -> Tokens]
    /\ pc = "parse"
    /\ exit_status = << >>
    /\ args = NoValue
    /\ cntrl_file = NoValue
    /\ func_file = NoValue
    /\ stdout = << >>
    /\ builder = NoValue
    /\ connector = NoValue
    /\ cntrl_content = NoValue
    /\ func_content = NoValue
    /\ client = NoValue
    /\ events = << >>
    /\ ca_loads = << >>
    /\ opened = << >>
    /\ connects = << >>
    /\ calls = << >>

Step(step, ok) == [step |-> step, ok |-> ok]

\* Continue after a fallible call whose Result is unwrapped.
Proceed(step, ok) ==
    /\ events' = Append(events, Step(step, ok))
    /\ pc' = Unwrap(ok, step).pc
    /\ exit_status' = Unwrap(ok, step).exit

\* Continue after a call that cannot fail.
Advance(step) ==
    /\ events' = Append(events, Step(step, TRUE))
    /\ pc' = NextStep(step)
    /\ UNCHANGED exit_status

\* let args = Args::parse();
Parse ==
    /\ pc = "parse"
    /\ LET r == ParseArgs(argv) IN
       /\ events' = Append(events, Step("parse", r.kind = "ok"))
       /\ args' = r.args
       /\ pc' = IF r.kind = "ok" THEN NextStep("parse") ELSE "exited"
       /\ exit_status' = CASE r.kind = "ok" -> << >>
                           [] r.kind = "error" -> << ExitUsage >>
                           [] OTHER -> << ExitSuccess >>
       /\ stdout' = CASE r.kind = "help" -> << HelpText >>
                      [] r.kind = "version" -> << VersionText >>
                      [] OTHER -> stdout
    /\ UNCHANGED << argv, cntrl_file, func_file, builder, connector,
                    cntrl_content, func_content, client, ca_loads, opened,
                    connects, calls >>

\* let cntrl_file = format!(..); let func_file = format!(..);
Format ==
    /\ pc = "format"
    /\ cntrl_file' = CntrlFile(args)
    /\ func_file' = FuncFile(args)
    /\ Advance("format")
    /\ UNCHANGED << argv, args, builder, connector, cntrl_content,
                    func_content, client, effects >>

\* println!(..); println!(..); println!(..);
PrintDiagnostics ==
    /\ pc = "print"
    /\ stdout' = stdout \o DiagnosticLines(args, cntrl_file, func_file)
    /\ Advance("print")
    /\ UNCHANGED << argv, locals, ca_loads, opened, connects, calls >>

\* let mut builder = SslConnector::builder(SslMethod::tls()).unwrap();
Builder ==
    /\ pc = "builder"
    /\ \E ok \in BOOLEAN :
          /\ builder' = IF ok THEN NewBuilder ELSE builder
          /\ Proceed("builder", ok)
    /\ UNCHANGED << argv, args, cntrl_file, func_file, connector,
                    cntrl_content, func_content, client, effects >>

\* builder.set_ca_file(args.ca_file).unwrap();
LoadCaFile ==
    /\ pc = "set_ca_file"
    /\ ca_loads' = Append(ca_loads, args.ca_file)
    /\ \E valid \in BOOLEAN :
          /\ builder' = IF valid THEN SetCaFile(builder, args.ca_file) ELSE builder
          /\ Proceed("set_ca_file", valid)
    /\ UNCHANGED << argv, args, cntrl_file, func_file, connector,
                    cntrl_content, func_content, client, stdout, opened,
                    connects, calls >>

\* builder.set_verify(SslVerifyMode::NONE);
SetVerifyMode ==
    /\ pc = "set_verify"
    /\ builder' = SetVerify(builder)
    /\ Advance("set_verify")
    /\ UNCHANGED << argv, args, cntrl_file, func_file, connector,
                    cntrl_content, func_content, client, effects >>

\* let connector = MakeTlsConnector::new(builder.build());
MakeConnector ==
    /\ pc = "make_connector"
    /\ connector' = builder
    /\ Advance("make_connector")
    /\ UNCHANGED << argv, args, cntrl_file, func_file, builder,
                    cntrl_content, func_content, client, effects >>

\* let cntrl_content = fs::read_to_string(cntrl_file).expect(..);
ReadCntrl ==
    /\ pc = "read_cntrl"
    /\ \E d \in DiskStates :
          /\ opened' = Append(opened, [path |-> cntrl_file, disk |-> d])
          /\ cntrl_content' = ReadToString(d).val
          /\ Proceed("read_cntrl", ReadToString(d).ok)
    /\ UNCHANGED << argv, args, cntrl_file, func_file, builder, connector,
                    func_content, client, stdout, ca_loads, connects, calls >>

\* let func_content = fs::read_to_string(func_file).expect(..);
ReadFunc ==
    /\ pc = "read_func"
    /\ \E d \in DiskStates :
          /\ opened' = Append(opened, [path |-> func_file, disk |-> d])
          /\ func_content' = ReadToString(d).val
          /\ Proceed("read_func", ReadToString(d).ok)
    /\ UNCHANGED << argv, args, cntrl_file, func_file, builder, connector,
                    cntrl_content, client, stdout, ca_loads, connects, calls >>

\* let mut client = Client::connect(&args.pg_conn, connector).unwrap();
Connect ==
    /\ pc = "connect"
    /\ \E srv \in Servers :
          LET tls == srv.reachable /\ HandshakeAccepted(connector, srv)
              ok  == tls /\ srv.auth
          IN /\ connects' = Append(connects,
                    [pg_conn |-> args.pg_conn, connector |-> connector,
                     server |-> srv, handshake |-> tls, ok |-> ok])
             /\ client' = IF ok THEN "connected" ELSE client
             /\ Proceed("connect", ok)
    /\ UNCHANGED << argv, args, cntrl_file, func_file, builder, connector,
                    cntrl_content, func_content, stdout, ca_loads, opened,
                    calls >>

\* client.execute("SELECT ..", &[&ext_name, &ext_rev, &cntrl_content,
\*                &false, &func_content]).unwrap();
Execute ==
    /\ pc = "execute"
    /\ \E ok \in BOOLEAN :
          /\ calls' = Append(calls,
                 [statement |-> InstallStatement,
                  params |-> InstallArgs(args, cntrl_content, func_content),
                  ok |-> ok])
          /\ Proceed("execute", ok)
    /\ UNCHANGED << argv, locals, stdout, ca_loads, opened, connects >>

\* The closing brace of main: the process ends with status 0.
Return ==
    /\ pc = "return"
    /\ pc' = "exited"
    /\ exit_status' = << ExitSuccess >>
    /\ UNCHANGED << argv, locals, effects, events >>

Next ==
    \/ Parse
    \/ Format
    \/ PrintDiagnostics
    \/ Builder
    \/ LoadCaFile
    \/ SetVerifyMode
    \/ MakeConnector
    \/ ReadCntrl
    \/ ReadFunc
    \/ Connect
    \/ Execute
    \/ Return

Spec == Init /\ [][Next]_vars

TypeOK ==
    /\ pc \in {Order[i] : i \in 1..Len(Order)} \cup {"exited"}
    /\ exit_status \in {<< >>, << ExitSuccess >>, << ExitUsage >>, << ExitPanic >>}
    /\ (pc = "exited") = (exit_status # << >>)
    /\ Len(events) <= Len(Order)

\* ------------------------------------------------------------ properties
Exited == pc = "exited"

Succeeded(step) == \E i \in 1..Len(events) : events[i] = Step(step, TRUE)

Failed(step) == \E i \in 1..Len(events) : events[i] = Step(step, FALSE)

Parsed == Succeeded("parse")

\* What was on disk at a path the run opened.
DiskAt(path) == opened[CHOOSE i \in 1..Len(opened) : opened[i].path = path].disk

IsDiagnostic(line) == line \notin {HelpText, VersionText}

\* C1: a connection attempt happens only after both the control file and
\* the definition script were read successfully; when either read fails the
\* process ends with a nonzero status and no connection attempt and no
\* remote call is ever made.
C1_ReadsBeforeConnect ==
    /\ \A i \in 1..Len(events) :
          events[i].step = "connect" =>
             /\ \E j \in 1..(i - 1) : events[j] = Step("read_cntrl", TRUE)
             /\ \E j \in 1..(i - 1) : events[j] = Step("read_func", TRUE)
    /\ connects # << >> =>
          /\ Len(opened) = 2
          /\ \A i \in 1..2 : opened[i].disk \in Texts
    /\ (Failed("read_cntrl") \/ Failed("read_func")) =>
          /\ Exited
          /\ exit_status # << ExitSuccess >>
          /\ connects = << >>
          /\ calls = << >>

C1_Witness ==
    /\ Len(connects) = 1
    /\ Succeeded("read_cntrl")
    /\ Succeeded("read_func")

\* C2: every remote call carries, in this order, the extension name and
\* the revision given on the command line, the exact text on disk at the
\* control file's path, the boolean false, and the exact text on disk at
\* the definition script's path.
C2_RemoteCallArguments ==
    \A i \in 1..Len(calls) :
       /\ Len(calls[i].params) = 5
       /\ calls[i].params[1] = ValueOf(argv, "n")
       /\ calls[i].params[2] = ValueOf(argv, "r")
       /\ calls[i].params[3] = DiskAt(cntrl_file)
       /\ calls[i].params[4] = FALSE
       /\ calls[i].params[5] = DiskAt(func_file)

C2_Witness ==
    /\ Len(calls) = 1
    /\ calls[1].params[3] = "comment = 'x'"
    /\ calls[1].params[5] = "CREATE FUNCTION f() RETURNS int;\n"

AllStepsSucceeded ==
    \A s \in {"parse", "set_ca_file", "read_cntrl", "read_func", "connect", "execute"} :
       Succeeded(s)

SomeStepFailed ==
    \E s \in {"set_ca_file", "read_cntrl", "read_func", "connect", "execute"} :
       Failed(s)

HelpOrVersionShown == stdout \in {<< HelpText >>, << VersionText >>}

\* C3 as stated: the process exits with status 0 if and only if argument
\* parsing, the CA load, both reads, the connection and the remote call all
\* succeeded; a failure of any of them gives a nonzero status.
C3_ExitZeroIffAllSucceeded ==
    /\ Exited => ((exit_status = << ExitSuccess >>) <=> AllStepsSucceeded)
    /\ SomeStepFailed => (Exited /\ exit_status # << ExitSuccess >>)

\* C3 as amended: the process exits with status 0 if and only if every step
\* succeeded or clap displayed the help or version text; a failure of the CA
\* load, of a file read, of the connection or of the remote call gives a
\* nonzero status.
C3_ExitZeroIffAllSucceededOrHelp ==
    /\ Exited =>
          ((exit_status = << ExitSuccess >>) <=> (AllStepsSucceeded \/ HelpOrVersionShown))
    /\ SomeStepFailed => (Exited /\ exit_status # << ExitSuccess >>)
    /\ ~(AllStepsSucceeded /\ HelpOrVersionShown)

C3_Witness ==
    /\ Exited
    /\ exit_status = << ExitSuccess >>
    /\ Len(calls) = 1
    /\ calls[1].ok

\* C4: the only paths handed to fs::read_to_string are
\* {ext_path}/{ext_name}.control and {ext_path}/{ext_name}--{ext_rev}.sql,
\* built from the values given on the command line, and none is opened
\* twice.
C4_OnlyTheTwoExtensionFiles ==
    /\ ~Parsed => opened = << >>
    /\ Parsed =>
          LET p == ValueOf(argv, "p")
              n == ValueOf(argv, "n")
              r == ValueOf(argv, "r")
          IN \A i \in 1..Len(opened) :
                /\ opened[i].path \in {p \o "/" \o n \o ".control",
                                       p \o "/" \o n \o "--" \o r \o ".sql"}
                /\ \A j \in 1..Len(opened) : opened[j].path = opened[i].path => j = i

C4_Witness ==
    /\ Len(opened) = 2
    /\ ValueOf(argv, "n") = "my--ext"
    /\ ValueOf(argv, "r") = "2.0--beta"

\* C5: a failed step is the last step of the run and the process has ended;
\* a failed CA load is followed by no connection attempt, a failed
\* connection by no remote call; a run makes at most one connection attempt
\* and at most one remote call.
C5_FirstFailureIsTerminal ==
    /\ \A i \in 1..Len(events) : ~events[i].ok => (i = Len(events) /\ Exited)
    /\ Failed("set_ca_file") => connects = << >>
    /\ Failed("connect") => calls = << >>
    /\ Len(connects) <= 1
    /\ Len(calls) <= 1
    /\ Len(ca_loads) <= 1
    /\ Len(opened) <= 2

C5_Witness ==
    /\ Failed("connect")
    /\ Len(connects) = 1
    /\ ~connects[1].server.reachable

Malformed ==
    \/ Given(argv, "bad")
    \/ \E k \in Options : Occurrences(argv, k) > 1

MissingRequired == \E k \in {"c", "p", "n", "r"} : ~Given(argv, k)

NoWorkDone ==
    /\ \A i \in 1..Len(stdout) : ~IsDiagnostic(stdout[i])
    /\ ca_loads = << >>
    /\ opened = << >>
    /\ connects = << >>
    /\ calls = << >>

\* C6 as stated: when a required option is missing or the command line is
\* malformed, the process exits with a nonzero status at argument parsing:
\* no diagnostic line is printed, the CA file is not loaded, no extension
\* file is read, no connection and no remote call is attempted.
C6_BadCommandLineExitsNonzero ==
    (MissingRequired \/ Malformed) =>
       /\ NoWorkDone
       /\ pc # "parse" => (Exited /\ exit_status # << ExitSuccess >>)

\* C6 as amended: when a required option is missing or the command line is
\* malformed, the process ends at argument parsing with no diagnostic line
\* printed, no CA file loaded, no extension file read and no connection or
\* remote call attempted; its status is nonzero unless the command line
\* holds a help or version flag that clap answered, and then the status is
\* 0 and standard output holds the help or version text.
C6_BadCommandLineEndsAtParsing ==
    (MissingRequired \/ Malformed) =>
       /\ NoWorkDone
       /\ pc # "parse" =>
             /\ Exited
             /\ exit_status \in {<< ExitSuccess >>, << ExitUsage >>}
             /\ exit_status = << ExitSuccess >> =>
                   /\ Given(argv, "help") \/ Given(argv, "version")
                   /\ HelpOrVersionShown

C6_Witness ==
    /\ MissingRequired
    /\ ~Given(argv, "help")
    /\ ~Given(argv, "version")
    /\ ~Given(argv, "bad")
    /\ Given(argv, "c") /\ Given(argv, "p") /\ Given(argv, "n")
    /\ Exited
    /\ exit_status = << ExitUsage >>

\* C7: a server whose certificate does not chain to the CA bundle of
\* ca_file is not accepted: the handshake is refused, the connection fails
\* and no remote call is made.
C7_UntrustedCertificateRejected ==
    \A i \in 1..Len(connects) :
       (connects[i].server.reachable /\ ~connects[i].server.chains) =>
          /\ ~connects[i].handshake
          /\ ~connects[i].ok
          /\ calls = << >>

\* C8: whenever the CA file was loaded and the server reached presents a
\* certificate that chains to it, the client accepts the handshake, also
\* when the host name does not match the certificate's subject.
C8_HostnameNeverRejects ==
    \A i \in 1..Len(connects) :
       (Succeeded("set_ca_file") /\ connects[i].server.reachable
           /\ connects[i].server.chains) =>
          /\ connects[i].handshake
          /\ connects[i].ok = connects[i].server.auth

C8_Witness ==
    /\ Len(connects) = 1
    /\ connects[1].server.reachable
    /\ connects[1].server.chains
    /\ ~connects[1].server.host_match
    /\ connects[1].handshake
    /\ connects[1].connector.ca_file = args.ca_file

\* C9: the path loaded into the TLS configuration is
\* /etc/pki/ca-trust/extracted/pem/tls-ca-bundle.pem when -a/--ca-file is
\* not given, and the given path when it is.
C9_CaFileDefault ==
    \A i \in 1..Len(ca_loads) :
       /\ ~Given(argv, "a") =>
             ca_loads[i] = "/etc/pki/ca-trust/extracted/pem/tls-ca-bundle.pem"
       /\ Given(argv, "a") => ca_loads[i] = ValueOf(argv, "a")
       /\ Succeeded("set_ca_file") => builder.ca_file = ca_loads[i]

C9_Witness ==
    /\ ~Given(argv, "a")
    /\ Succeeded("set_ca_file")
    /\ ca_loads = << "/etc/pki/ca-trust/extracted/pem/tls-ca-bundle.pem" >>

MainSteps ==
    << "parse", "print", "set_ca_file", "read_cntrl", "read_func", "connect", "execute" >>

IsMainStep(e) == \E i \in 1..Len(MainSteps) : MainSteps[i] = e.step

\* C10: the steps of a run happen in the order parsing, printing, CA load,
\* control file read, definition script read, connection, remote call, each
\* only after all earlier ones succeeded; every run whose arguments parse
\* has printed the three diagnostic lines by the time it ends; a failed CA
\* load leaves no extension file read, and a failed control file read
\* leaves the definition script unread.
C10_FixedStepOrder ==
    /\ LET main == SelectSeq(events, IsMainStep) IN
          /\ Len(main) <= Len(MainSteps)
          /\ \A i \in 1..Len(main) :
                /\ main[i].step = MainSteps[i]
                /\ i < Len(main) => main[i].ok
    /\ (Parsed /\ Exited) =>
          /\ Len(stdout) = 3
          /\ \A i \in 1..3 : IsDiagnostic(stdout[i])
    /\ Failed("set_ca_file") => opened = << >>
    /\ Failed("read_cntrl") =>
          /\ Len(opened) = 1
          /\ opened[1].path = cntrl_file

C10_Witness ==
    /\ Failed("read_cntrl")
    /\ Len(stdout) = 3
    /\ Len(opened) = 1

====
